---- MODULE Spec2Model ----
(***************************************************************************)
(* Luscii/gha-release-linker: a GitHub release is linked to the Linear     *)
(* issues of the pull requests it contains.                                *)
(*                                                                         *)
(* The repository holds several historical variants of every file.  The   *)
(* variable impl names the variant a run is built from:                    *)
(*   "util"    src/src/attach_release.ts, with the body-text              *)
(*             getPullRequestUrlsForRelease(versionName) of part_000 and   *)
(*             the *.util collaborators (part_006, link_attach.util.ts,    *)
(*             label_attach.util.ts), which catch request errors;          *)
(*   "cfgBody" part_003, with the body-text + generated-notes             *)
(*             getPullRequestUrlsForRelease of part_007:337-439 and the    *)
(*             collaborators taking linearApiUrl/linearApiKey              *)
(*             (part_007:29-77, part_005:35-101, label_attach.ts), which   *)
(*             do not catch;                                               *)
(*   "cfgDiff" part_003, with the diff-based                               *)
(*             getPullRequestUrlsForRelease of part_007:456-631 and the    *)
(*             same collaborators.                                         *)
(* run (part_005:9-19) wraps processRelease in every variant.              *)
(***************************************************************************)
EXTENDS Integers, Sequences, FiniteSets, TLC

(***************************************************************************)
(* Bounds of the model.                                                    *)
(***************************************************************************)
MaxReleases == 3      \* releases returned by listReleases
MaxTime == 3          \* distinct creation timestamps
NCommits == 3         \* commits of the repository
NPRs == 2             \* pull requests of the repository
MaxPageLen == 2       \* commits the server puts on one history page
MaxBodyLen == 3       \* symbols of a release body
MaxIssues == 2        \* Linear issues
MaxFaults == 2        \* Linear requests that may fail during one run

(***************************************************************************)
(* Program constants.                                                      *)
(***************************************************************************)
associatedFirst == 20   \* associatedPullRequests(first: 20)
pageSize == 100         \* history(first: $commitsFirst)
per_page == 100         \* listReleases({ per_page: 100 })
labelsFirst == 50       \* labels(first: 50) of an issue

VARIABLES
  impl,                 \* variant of the code the run is built from
  mode,                 \* input MODE / release-mode
  moveToDone,           \* input MOVE_TO_DONE (attach_release.ts)
  configSet,            \* LINEAR_API_KEY, GITHUB_TOKEN, GITHUB_ORG, GITHUB_REPO are set
  enabledRaw,           \* input ENABLED_LINEAR_PREFIXES (attach_release.ts)
  sortTies,             \* which of the elements its comparator ties the engine's sort puts first
  body,                 \* GitHub: the release's description (<<>>: null or "")
  notes,                \* GitHub: what generateReleaseNotes returns
  releases,             \* GitHub: the releases, as listReleases orders them
  assoc,                \* GitHub: commit -> pull requests associated with it
  pc,                   \* position of the run
  thrown,               \* the call whose rejection is propagating ("none")
  previousReleaseTag,   \* getPullRequestUrlsForRelease: previous?.tag_name
  commits,              \* getPullRequestUrlsForRelease: compare.data.commits
  prSet,                \* prUrls / prSet accumulated so far, insertion order
  cursor,               \* fetchFullHistoryPRs: cursor (0: undefined)
  page,                 \* fetchFullHistoryPRs: page
  prUrls,               \* processRelease: the list getPullRequestUrlsForRelease returned
  calls,                \* GitHub requests sent so far
  fetchFailed,          \* a body-text variant caught a GitHub failure
  historyGap,           \* how the last history page request ended
  earlier,              \* what an earlier invocation for the same tag returned
  faults,               \* Linear: failing answers the run may still meet
  linkage,              \* Linear: PR URL -> issue its attachment belongs to (0: none)
  identifiers,          \* Linear: issue -> identifier
  linear,               \* Linear: labels, labels and state of each issue, attachments
  parentId,             \* ensureReleaseLabel: parentId (0: null)
  releaseLabel,         \* processRelease: releaseLabel (id 0: null)
  loop,                 \* processRelease: the for loop's variables
  log,                  \* Linear requests sent so far
  summary,              \* the summary processRelease emitted ("none" before)
  reported,             \* updatedIssues.size in that summary
  failed                \* core.setFailed was called

cfgVars == <<impl, mode, moveToDone, configSet, enabledRaw, sortTies>>
linWorld == <<linkage, identifiers>>
linVars == <<faults, linkage, identifiers, linear, parentId, releaseLabel, loop, log>>
ghWorld == <<body, notes, releases, assoc>>
ghLocal == <<previousReleaseTag, commits, prSet, cursor, page>>
ghVars == <<prUrls, calls, fetchFailed, historyGap>>

(***************************************************************************)
(* Helpers.                                                                *)
(***************************************************************************)
Range(s) == {s[i] : i \in 1..Len(s)}

Min(a, b) == IF a <= b THEN a ELSE b

NoDuplicates(s) == \A i, j \in 1..Len(s) : s[i] = s[j] => i = j

RECURSIVE Ascending(_)
Ascending(S) ==
  IF S = {} THEN <<>>
  ELSE LET m == CHOOSE x \in S : \A y \in S : x <= y
       IN <<m>> \o Ascending(S \ {m})

RECURSIVE Descending(_)
Descending(S) ==
  IF S = {} THEN <<>>
  ELSE LET m == CHOOSE x \in S : \A y \in S : x >= y
       IN <<m>> \o Descending(S \ {m})

\* new Set(): a JavaScript Set keeps insertion order; add ignores a present value.
SetAddAlways(set, x) == Append(set, x)

SetAdd(set, x) == IF x \in Range(set) THEN set ELSE Append(set, x)

RECURSIVE SetAddAll(_, _)
SetAddAll(set, xs) ==
  IF xs = <<>> THEN set ELSE SetAddAll(SetAdd(set, Head(xs)), Tail(xs))

\* [...new Set(prUrls)]
DedupKeepAll(xs) == xs

Dedup(xs) == SetAddAll(<<>>, xs)

(***************************************************************************)
(* Pull-request URLs.  https://github.com/{org}/{repo}/pull/{digits} is    *)
(* represented by its digit string, a sequence of digit characters; any    *)
(* other string is represented by its symbols.                             *)
(***************************************************************************)
DigitChars == <<"1", "2", "3", "4", "5", "6", "7", "8", "9">>

PRs == 1..NPRs

PrUrl(n) == <<DigitChars[n]>>

(***************************************************************************)
(* Release text.  A text is a sequence of symbols; "U" stands for the      *)
(* literal https://github.com/{org}/{repo}/pull/, "V" for the same text    *)
(* with another character in the place of the dot of github.com, and "R"   *)
(* for the literal {org}/{repo}; the other symbols are single characters.  *)
(***************************************************************************)
Digits == {"0", "1", "2"}

Alphabet == {"U", "V", "R", "#", "1", "2", " ", "a"}

Texts(n) == UNION {[1..k -> Alphabet] : k \in 0..n}

\* \w at the first / last character of a symbol ("U" starts with h, ends with /).
WordStart(s) == s \in Digits \cup {"a", "U", "V", "R"}

WordEnd(s) == s \in Digits \cup {"a", "R"}

\* (\d+): the longest run of digits of text t starting at position i.
RECURSIVE DigitRun(_, _)
DigitRun(t, i) ==
  IF i > Len(t) \/ t[i] \notin Digits THEN <<>>
  ELSE <<t[i]>> \o DigitRun(t, i + 1)

\* fullUrlRegex: https://github.com/${org}/${repo}/pull/(\d+), flag g.  The
\* pattern is not escaped, so its dot matches any character.
FullUrlAt(t, i) == t[i] \in {"U", "V"} /\ DigitRun(t, i + 1) # <<>>

\* match[0]: the matched text itself is pushed.
FullUrlMatch(t, i) ==
  IF t[i] = "U" THEN DigitRun(t, i + 1) ELSE <<t[i]>> \o DigitRun(t, i + 1)

\* A matcher of #n without the conditions on the characters around it.
PrNumberAnywhere(t, i) == t[i] = "#" /\ DigitRun(t, i + 1) # <<>>

\* prNumberRegex: /(?:^|\W)#(\d+)(?!\w)/g.  \d+ backtracks, so a match needs the
\* whole digit run to be followed by a non-word character or the end.
PrNumberAt(t, i) ==
  /\ t[i] = "#"
  /\ i = 1 \/ ~WordEnd(t[i - 1])
  /\ LET d == DigitRun(t, i + 1)
     IN /\ d # <<>>
        /\ i + Len(d) = Len(t) \/ ~WordStart(t[i + Len(d) + 1])

\* prNumberWithRepoRegex: \(?${org}/${repo}#(\d+)\)?, flag g.
PrNumberWithRepoAt(t, i) ==
  /\ t[i] = "R"
  /\ i < Len(t) /\ t[i + 1] = "#"
  /\ DigitRun(t, i + 2) # <<>>

RECURSIVE FullUrlMatches(_, _)
FullUrlMatches(t, i) ==
  IF i > Len(t) THEN <<>>
  ELSE IF FullUrlAt(t, i)
       THEN <<FullUrlMatch(t, i)>> \o FullUrlMatches(t, i + 1 + Len(DigitRun(t, i + 1)))
       ELSE FullUrlMatches(t, i + 1)

RECURSIVE PrNumberMatches(_, _)
PrNumberMatches(t, i) ==
  IF i > Len(t) THEN <<>>
  ELSE IF PrNumberAt(t, i)
       THEN <<DigitRun(t, i + 1)>> \o PrNumberMatches(t, i + 1 + Len(DigitRun(t, i + 1)))
       ELSE PrNumberMatches(t, i + 1)

RECURSIVE PrNumberWithRepoMatches(_, _)
PrNumberWithRepoMatches(t, i) ==
  IF i > Len(t) THEN <<>>
  ELSE IF PrNumberWithRepoAt(t, i)
       THEN <<DigitRun(t, i + 2)>> \o PrNumberWithRepoMatches(t, i + 2 + Len(DigitRun(t, i + 2)))
       ELSE PrNumberWithRepoMatches(t, i + 1)

\* extractPRUrlsFromBody(releaseBody, prUrls) of part_007: pushes onto prUrls.
extractPRUrlsFromBody(releaseBody, urls) ==
  urls \o FullUrlMatches(releaseBody, 1) \o PrNumberMatches(releaseBody, 1)
       \o PrNumberWithRepoMatches(releaseBody, 1)

\* The two regular expressions of part_000 (no org/repo#n form).
extractFromBodyEnv(releaseBody) ==
  FullUrlMatches(releaseBody, 1) \o PrNumberMatches(releaseBody, 1)

(***************************************************************************)
(* The commit graph (a fixture): a line 1 <- 2 <- 3 and, with more         *)
(* commits, a main line 1 <- 2 <- ... and one side commit, NCommits, that  *)
(* branches off the main line.                                             *)
(***************************************************************************)
Commits == 1..NCommits

Parents(c) ==
  IF c = 1 THEN {}
  ELSE IF c = NCommits /\ c > 3 THEN {c - 2}
  ELSE {c - 1}

RECURSIVE Reach(_)
Reach(c) == {c} \cup UNION {Reach(p) : p \in Parents(c)}

(***************************************************************************)
(* Releases.                                                               *)
(***************************************************************************)
TagNames == <<"v9", "v8", "v7", "v6", "v5">>

versionName == TagNames[1]

Targets == {"main", "hotfix"}

ReleaseRecords ==
  [created_at : 1..MaxTime, target_commitish : Targets, commit : Commits]

\* The release the tag versionName names (the first of the list, in this model).
currentRelease == releases[1]

TagCommit(tag) ==
  LET i == CHOOSE k \in 1..Len(releases) : releases[k].tag_name = tag
  IN releases[i].commit

(***************************************************************************)
(* GitHub, as the spec's section 6 describes its interfaces.               *)
(***************************************************************************)
\* octokit.repos.listReleases({ per_page: 100 }): the first page.
listReleases == SubSeq(releases, 1, Min(per_page, Len(releases)))

\* octokit.repos.compareCommits({ base, head }): the commits reachable from head
\* and not from base, oldest first.
compareCommitsWholeHistory(base, head) == Ascending(Reach(TagCommit(head)))

compareCommits(base, head) ==
  Ascending(Reach(TagCommit(head)) \ Reach(TagCommit(base)))

\* associatedPullRequests(first: 20) { nodes { url } } of one commit.
associatedPullRequests(c) ==
  LET urls == Ascending(assoc[c])
  IN [i \in 1..Min(associatedFirst, Len(urls)) |-> PrUrl(urls[i])]

\* history(first, after): the ancestry of the tag's commit, newest first.
history(tag) == Descending(Reach(TagCommit(tag)))

\* The PR URLs associated with the commits of a sequence.
RECURSIVE UrlsOfCommits(_)
UrlsOfCommits(cs) ==
  IF cs = <<>> THEN <<>>
  ELSE associatedPullRequests(Head(cs)) \o UrlsOfCommits(Tail(cs))

(***************************************************************************)
(* The states a run starts from.  Each family varies one part of the world *)
(* and fixes the rest.                                                     *)
(***************************************************************************)
NoCalls ==
  [getReleaseByTag |-> 0, listReleases |-> 0, compareCommits |-> 0,
   commitQueries |-> <<>>, historyPages |-> <<>>, historyEnds |-> <<>>,
   generateNotes |-> 0]

\* Fixtures: a release cut at time t tags the tip its target had then; every
\* commit was merged by a pull request of its own.
TipAt(target, t) == IF target = "hotfix" THEN NCommits ELSE Min(t, NCommits - 1)

OwnPr == [c \in Commits |-> {Min(c, NPRs)}]

NotesFixtures ==
  {<<>>, <<"#", "1">>, <<"#", "1", " ", "U", "1">>,
   <<"#", "1", " ", "R", "#", "1", " ", "#", "2">>}

(***************************************************************************)
(* run and the head of processRelease.                                     *)
(***************************************************************************)
\* run() calls processRelease(), which calls getPullRequestUrlsForRelease.
processRelease ==
  /\ pc = "start"
  /\ IF impl = "util" /\ ~configSet
     THEN pc' = "thrown" /\ thrown' = "config"
     ELSE UNCHANGED thrown /\
          pc' = CASE impl = "util" -> "fetchEnv"
             [] impl \in {"cfgBody", "cfgConc"} -> "fetchBody"
             [] impl = "cfgDiff" -> "getRelease"
  /\ UNCHANGED <<cfgVars, earlier, linVars, ghWorld, ghLocal, ghVars, summary, reported, failed>>

\* run's catch: core.setFailed for an Error and for any other thrown value.
setFailedNever(error) == FALSE

setFailed(error) == TRUE

run_catch ==
  /\ pc = "thrown"
  /\ failed' = setFailed(thrown)
  /\ pc' = "done"
  /\ UNCHANGED <<cfgVars, earlier, linVars, ghWorld, ghLocal, ghVars, thrown, summary, reported>>

(***************************************************************************)
(* getPullRequestUrlsForRelease(versionName) of part_000: release body     *)
(* only.                                                                   *)
(***************************************************************************)
getPullRequestUrlsForRelease_env ==
  /\ pc = "fetchEnv"
  /\ calls' = [calls EXCEPT !.getReleaseByTag = @ + 1]
  /\ \E ok \in BOOLEAN :
       IF ~ok
       THEN \* catch (error) { ...; return [] }
            /\ fetchFailed' = TRUE
            /\ prUrls' = <<>>
            /\ UNCHANGED prSet
       ELSE /\ fetchFailed' = FALSE
            /\ prSet' = IF body = <<>> THEN <<>> ELSE extractFromBodyEnv(body)
            /\ prUrls' = Dedup(prSet')
  /\ pc' = "returned"
  /\ UNCHANGED <<cfgVars, earlier, linVars, ghWorld, previousReleaseTag, commits, cursor, page,
                 historyGap, thrown, summary, reported, failed>>

(***************************************************************************)
(* getPullRequestUrlsForRelease of part_007:337-439: release body, then    *)
(* the generated release notes.                                            *)
(***************************************************************************)
\* What follows extractPRUrlsFromBody(releaseBody, prUrls) at line 364.
AfterFirstExtract(urls) ==
  IF Len(urls) <= 0
  THEN /\ pc' = "notes2"
       /\ prSet' = urls
       /\ UNCHANGED prUrls
  ELSE /\ pc' = "returned"
       /\ prSet' = urls
       /\ prUrls' = Dedup(urls)

getReleaseByTag_body ==
  /\ pc = "fetchBody"
  /\ calls' = [calls EXCEPT !.getReleaseByTag = @ + 1]
  /\ \E ok \in BOOLEAN :
       IF ~ok
       THEN /\ fetchFailed' = TRUE
            /\ prUrls' = <<>>
            /\ pc' = "returned"
            /\ UNCHANGED prSet
       ELSE /\ fetchFailed' = FALSE
            /\ IF body = <<>>
               THEN pc' = "notes1" /\ UNCHANGED <<prSet, prUrls>>
               ELSE AfterFirstExtract(extractPRUrlsFromBody(body, <<>>))
  /\ UNCHANGED <<cfgVars, earlier, linVars, ghWorld, previousReleaseTag, commits, cursor, page,
                 historyGap, thrown, summary, reported, failed>>

\* generateNotes() at line 360 (the body is empty) and at line 369 (no
\* reference was extracted); a rejection is caught at line 382.
generateNotes ==
  /\ pc \in {"notes1", "notes2"}
  /\ calls' = [calls EXCEPT !.generateNotes = @ + 1]
  /\ \E ok \in BOOLEAN :
       IF ~ok
       THEN /\ fetchFailed' = TRUE
            /\ prUrls' = <<>>
            /\ pc' = "returned"
            /\ UNCHANGED prSet
       ELSE /\ fetchFailed' = FALSE
            /\ IF pc = "notes1"
               THEN AfterFirstExtract(extractPRUrlsFromBody(notes, <<>>))
               ELSE /\ prSet' = extractPRUrlsFromBody(notes, prSet)
                    /\ prUrls' = Dedup(prSet')
                    /\ pc' = "returned"
  /\ UNCHANGED <<cfgVars, earlier, linVars, ghWorld, previousReleaseTag, commits, cursor, page,
                 historyGap, thrown, summary, reported, failed>>

(***************************************************************************)
(* getPullRequestUrlsForRelease of part_007:456-558: bounded diff against  *)
(* the previous release of the same target commitish, or the full history. *)
(***************************************************************************)
\* A rejected await with no try around it propagates to run.
swallow(call) == "listReleases"

propagate(call) == "thrown"

\* Resolve current release (lines 469-476).
getReleaseByTag_diff ==
  /\ pc = "getRelease"
  /\ calls' = [calls EXCEPT !.getReleaseByTag = @ + 1]
  /\ \E ok \in BOOLEAN :
       IF ok
       THEN pc' = "listReleases" /\ UNCHANGED thrown
       ELSE pc' = propagate("getReleaseByTag") /\ thrown' = "getReleaseByTag"
  /\ UNCHANGED <<cfgVars, earlier, linVars, ghWorld, ghLocal, prUrls, fetchFailed, historyGap,
                 summary, reported, failed>>

\* The filter of lines 485-490, as the positions of the list that pass it.
comparableAnyTarget(list, cur) ==
  {i \in 1..Len(list) :
     /\ list[i].created_at < cur.created_at
     /\ list[i].tag_name # versionName}

comparable(list, cur) ==
  {i \in 1..Len(list) :
     /\ list[i].created_at < cur.created_at
     /\ list[i].tag_name # versionName
     /\ list[i].target_commitish = cur.target_commitish}

\* .sort((a, b) => (a.created_at > b.created_at ? -1 : 1))[0]: a candidate no
\* other candidate is later than; which one, among equals, the sort decides.
latest(list, cands) ==
  {i \in cands : \A j \in cands : list[j].created_at <= list[i].created_at}

\* [0] of the sorted candidates.  The comparator never answers 0, so the order
\* of candidates with equal created_at is the engine's.
sortedFirst(list, cands) ==
  LET top == latest(list, cands)
  IN IF sortTies = "first"
     THEN CHOOSE i \in top : \A j \in top : i <= j
     ELSE CHOOSE i \in top : \A j \in top : j <= i

\* The full-history traversal whatever was found.
strategyAlwaysHistory(tag) == "history"

\* if (!previousReleaseTag) of line 494: the full-history traversal, else the
\* bounded diff.
strategy(tag) == IF tag = "none" THEN "history" ELSE "compare"

\* Find previous release sharing the same target_commitish (lines 479-512).
findPrevious ==
  /\ pc = "listReleases"
  /\ calls' = [calls EXCEPT !.listReleases = @ + 1]
  /\ \E ok \in BOOLEAN :
       IF ~ok
       THEN /\ pc' = "thrown"
            /\ thrown' = "listReleases"
            /\ UNCHANGED previousReleaseTag
       ELSE LET list == listReleases
                cands == comparable(list, currentRelease)
            IN /\ UNCHANGED thrown
               /\ previousReleaseTag' =
                    IF cands = {} THEN "none"
                    ELSE list[sortedFirst(list, cands)].tag_name
               /\ pc' = strategy(previousReleaseTag')
  /\ UNCHANGED <<cfgVars, earlier, linVars, ghWorld, commits, prSet, cursor, page, prUrls,
                 fetchFailed, historyGap, summary, reported, failed>>

\* Compare commits between previous and current tag (lines 515-525); with no
\* commit the loop of line 543 is empty and line 557 returns.
compare ==
  /\ pc = "compare"
  /\ calls' = [calls EXCEPT !.compareCommits = @ + 1]
  /\ \E ok \in BOOLEAN :
       IF ~ok
       THEN /\ pc' = "thrown"
            /\ thrown' = "compareCommits"
            /\ UNCHANGED <<commits, prUrls>>
       ELSE /\ commits' = compareCommits(previousReleaseTag, versionName)
            /\ UNCHANGED thrown
            /\ IF commits' = <<>>
               THEN pc' = "returned" /\ prUrls' = prSet
               ELSE pc' = "commitQuery" /\ UNCHANGED prUrls
  /\ UNCHANGED <<cfgVars, earlier, linVars, ghWorld, previousReleaseTag, prSet, cursor, page,
                 fetchFailed, historyGap, summary, reported, failed>>

\* The first commit at every pass.
nextCommitFirst(cs, queried) == cs[1]

\* for (const c of commits): the commit of the pass after those queried.
nextCommit(cs, queried) == cs[Len(queried) + 1]

\* One pass of the loop of lines 543-554, and the return of line 557 after the
\* last commit.
commitQuery ==
  /\ pc = "commitQuery"
  /\ LET c == nextCommit(commits, calls.commitQueries)
     IN /\ calls' = [calls EXCEPT !.commitQueries = Append(@, c)]
        /\ \E ok \in BOOLEAN :
             IF ~ok
             THEN /\ pc' = "thrown"
                  /\ thrown' = "commitQuery"
                  /\ UNCHANGED <<prSet, prUrls>>
             ELSE /\ prSet' = SetAddAll(prSet, associatedPullRequests(c))
                  /\ UNCHANGED thrown
                  /\ IF Len(calls'.commitQueries) = Len(commits)
                     THEN pc' = "returned" /\ prUrls' = prSet'
                     ELSE pc' = "commitQuery" /\ UNCHANGED prUrls
  /\ UNCHANGED <<cfgVars, earlier, linVars, ghWorld, previousReleaseTag, commits, cursor, page,
                 fetchFailed, historyGap, summary, reported, failed>>

(***************************************************************************)
(* fetchFullHistoryPRs (part_007:560-631).  One pass of the loop of lines  *)
(* 598-628: the request of a page, and what follows it.  The server puts   *)
(* at most pageSize commits on a page; how many, it decides.               *)
(***************************************************************************)
\* The cursor of the page just read, again.
nextCursorSame(cur, endCursor) == cur

\* cursor = history.pageInfo.endCursor (line 627)
nextCursor(cur, endCursor) == endCursor

fetchFullHistoryPRs ==
  /\ pc = "history"
  /\ page' = page + 1
  /\ \E outcome \in {"ok", "rejected", "nohistory"} :
       CASE outcome = "rejected" ->
              /\ calls' = [calls EXCEPT !.historyPages = Append(@, cursor)]
              /\ pc' = "thrown"
              /\ thrown' = "history"
              /\ historyGap' = "rejected"
              /\ UNCHANGED <<prSet, cursor, prUrls>>
         [] outcome = "nohistory" ->
              \* if (!history) { break }: line 630 returns what was accumulated
              /\ calls' = [calls EXCEPT !.historyPages = Append(@, cursor)]
              /\ pc' = "returned"
              /\ historyGap' = "nohistory"
              /\ prUrls' = prSet
              /\ UNCHANGED <<prSet, cursor, thrown>>
         [] outcome = "ok" ->
              \E len \in 1..Min(pageSize, MaxPageLen) :
                LET all == history(versionName)
                    endCursor == Min(cursor + len, Len(all))
                    nodes == SubSeq(all, cursor + 1, endCursor)
                    hasNextPage == endCursor < Len(all)
                IN /\ calls' = [calls EXCEPT
                                 !.historyPages = Append(@, cursor),
                                 !.historyEnds =
                                   Append(@, [endCursor |-> endCursor,
                                              hasNextPage |-> hasNextPage])]
                   /\ prSet' = SetAddAll(prSet, UrlsOfCommits(nodes))
                   /\ historyGap' = "none"
                   /\ UNCHANGED thrown
                   /\ IF ~hasNextPage
                      THEN pc' = "returned" /\ prUrls' = prSet' /\ UNCHANGED cursor
                      ELSE /\ pc' = "history"
                           /\ cursor' = nextCursor(cursor, endCursor)
                           /\ UNCHANGED prUrls
  /\ UNCHANGED <<cfgVars, earlier, linVars, ghWorld, previousReleaseTag, commits, fetchFailed,
                 summary, reported, failed>>

\* A second invocation of getPullRequestUrlsForRelease for the same tag, the
\* releases and the commit graph being what they were.
NoEarlier ==
  [done |-> FALSE, urls |-> <<>>, gap |-> "none",
   ensured |-> FALSE, label |-> [id |-> 0, parent |-> 0], labels |-> {}]

getPullRequestUrlsForRelease_again ==
  /\ pc = "returned"
  /\ impl = "cfgDiff"
  /\ ~earlier.done
  /\ earlier' = [earlier EXCEPT !.done = TRUE, !.urls = prUrls, !.gap = historyGap]
  /\ pc' = "getRelease"
  /\ previousReleaseTag' = "none"
  /\ commits' = <<>>
  /\ prSet' = <<>>
  /\ cursor' = 0
  /\ page' = 0
  /\ prUrls' = <<>>
  /\ calls' = NoCalls
  /\ historyGap' = "none"
  /\ UNCHANGED <<cfgVars, linVars, ghWorld, fetchFailed, thrown, summary, reported, failed>>

(***************************************************************************)
(* Linear, and the values the collaborators exchange.                      *)
(***************************************************************************)
Issues == 1..MaxIssues

\* const doLink = ..., const doLabel = ... (attach_release.ts:47-48)
doLink == mode \in {"link", "both"}

doLabel == mode \in {"label", "both"}

\* The *.util collaborators wrap their requests in try/catch; the ones taking
\* linearApiUrl and linearApiKey do not.
catches == impl = "util"

\* `${repoName} releases` and `${version} (${repoName})`
ParentName == "releases"

ChildName == "version"

\* A LinearLabel as the code reads it: its id and its parent's id (0: none);
\* id 0 stands for null.
NoLabel == [id |-> 0, parent |-> 0]

NewLabelId(labels) ==
  IF labels = {} THEN 1
  ELSE (CHOOSE m \in {l.id : l \in labels} : \A l \in labels : l.id <= m) + 1

ParentOf(labels, id) == (CHOOSE l \in labels : l.id = id).parent

\* The issue an attachment with this URL belongs to (0: no attachment).
IssueOf(prUrl) == IF prUrl \in DOMAIN linkage THEN linkage[prUrl] ELSE 0

\* labels(first: 50) { nodes { id name parent { id name } } } of the issue.
Snapshot(issue) ==
  LET ids == linear.issueLabels[issue]
  IN [i \in 1..Min(labelsFirst, Len(ids)) |->
        [id |-> ids[i], parent |-> ParentOf(linear.labels, ids[i])]]

\* The answers Linear may give to a request: a failing one only while the
\* run's budget of failures lasts.
Answers(kinds) == {k \in kinds : k = "ok" \/ faults > 0}

Spend(answer) == IF answer = "ok" THEN faults ELSE faults - 1

\* Linear's record of the run: the requests it received, by kind, the calls
\* it answered with a failure, and the issues it changed as asked.
Logged(l, kind, entry, call, answer) ==
  [l EXCEPT ![kind] = Append(@, entry),
            !.failures = IF answer = "ok" THEN @ ELSE Append(@, call)]

Treated(l, issue, success) ==
  [l EXCEPT !.succeeded = IF success THEN @ \cup {issue} ELSE @]

\* The issues for which addLabelToIssue returned true.
Labelled(l, issue, ok) ==
  [l EXCEPT !.labelled = IF ok THEN @ \cup {issue} ELSE @]

\* The issues whose attachmentCreate Linear answered with success, and those
\* for which createLinearAttachment returned true.
Linked(l, issue, success, returned) ==
  [l EXCEPT !.attached = IF success THEN @ \cup {issue} ELSE @,
            !.linked = IF returned THEN @ \cup {issue} ELSE @]

\* A JSON object's property, undefined when it has none of that name.
Undefined == [undefined |-> TRUE]

Get(obj, key) == IF key \in DOMAIN obj THEN obj[key] ELSE Undefined

\* The axios response to the attachmentCreate mutation: response.data is the
\* GraphQL body { data: { attachmentCreate: { success } } }.
attachmentCreateResponse(success) ==
  [status |-> 200,
   data |-> [data |-> [attachmentCreate |-> [success |-> success]]]]

\* link_attach.util.ts:68-78: const { data } = response
createLinearAttachment_util(response) ==
  LET data == Get(response, "data")
  IN /\ Get(data, "attachmentCreate") # Undefined
     /\ Get(data, "attachmentCreate").success

\* part_005:90-100: const { data } = response.data
createLinearAttachment_cfg(response) ==
  LET data == Get(Get(response, "data"), "data")
  IN /\ Get(data, "attachmentCreate") # Undefined
     /\ Get(data, "attachmentCreate").success

(***************************************************************************)
(* isIdentifierEnabled and enabledPrefixes (attach_release.ts:106-122).    *)
(* Strings are sequences of characters.                                    *)
(***************************************************************************)
Separators == {" ", ","}

UpperChar(c) == CASE c = "e" -> "E" [] c = "o" -> "O" [] OTHER -> c

toUpperCase(str) == [i \in 1..Len(str) |-> UpperChar(str[i])]

\* .split(/[\s,]+/).map(s => s.trim()).filter(Boolean)
RECURSIVE Split(_, _)
Split(str, token) ==
  LET done == IF token = <<>> THEN <<>> ELSE <<token>>
  IN IF str = <<>> THEN done
     ELSE IF Head(str) \in Separators THEN done \o Split(Tail(str), <<>>)
     ELSE Split(Tail(str), Append(token, Head(str)))

startsWith(str, prefix) ==
  Len(prefix) <= Len(str) /\ SubSeq(str, 1, Len(prefix)) = prefix

enabledPrefixes ==
  LET tokens == Split(enabledRaw, <<>>)
  IN [i \in 1..Len(tokens) |->
        LET up == toUpperCase(tokens[i])
        IN IF up[Len(up)] = "-" THEN up ELSE Append(up, "-")]

\* Every identifier allowed.
isIdentifierEnabledAlways(identifier) == TRUE

isIdentifierEnabled(identifier) ==
  IF identifier = <<>> THEN FALSE
  ELSE IF Len(enabledPrefixes) = 0 THEN TRUE
  ELSE \E i \in 1..Len(enabledPrefixes) :
         startsWith(toUpperCase(identifier), enabledPrefixes[i])

(***************************************************************************)
(* processRelease after getPullRequestUrlsForRelease returned              *)
(* (attach_release.ts:42-54, part_003:29-52).                              *)
(***************************************************************************)
processRelease_fetched ==
  /\ pc = "returned"
  /\ impl # "cfgConc"
  /\ IF Len(prUrls) = 0
     THEN summary' = "noPRs" /\ pc' = "done"
     ELSE UNCHANGED summary /\ pc' = IF doLabel THEN "findParent" ELSE "lookup"
  /\ UNCHANGED <<cfgVars, earlier, linVars, ghWorld, ghLocal, ghVars, thrown, reported, failed>>

(***************************************************************************)
(* ensureReleaseLabel: label_attach.util.ts:8-180 (catches, returns null)  *)
(* and label_attach.ts:20-293 (throws).                                    *)
(***************************************************************************)
\* A request failed, or a create mutation reported no success.
EnsureFailed(call, resume) ==
  IF catches
  THEN pc' = resume /\ UNCHANGED thrown
  ELSE pc' = "thrown" /\ thrown' = call

fetchParentIdByName ==
  /\ pc = "findParent"
  /\ \E answer \in Answers({"ok", "rejected"}) :
       /\ faults' = Spend(answer)
       /\ log' = Logged(log, "labelRequests", "findParent", "findParent", answer)
       /\ IF answer = "rejected"
          THEN \* util: parentId stays null and the group is created
               EnsureFailed("findParent", "createParent") /\ parentId' = 0
          ELSE LET nodes == {l \in linear.labels : l.name = ParentName}
               IN /\ UNCHANGED thrown
                  /\ IF nodes = {}
                     THEN parentId' = 0 /\ pc' = "createParent"
                     ELSE (\E first \in nodes : parentId' = first.id) /\ pc' = "findChild"
  /\ UNCHANGED <<cfgVars, earlier, linWorld, linear, releaseLabel, loop, ghWorld, ghLocal,
                 ghVars, summary, reported, failed>>

createParentLabelGroup ==
  /\ pc = "createParent"
  /\ \E answer \in Answers({"ok", "refused", "rejected"}) :
       /\ faults' = Spend(answer)
       /\ log' = Logged(log, "labelRequests", "createParent", "createParent", answer)
       /\ IF answer = "ok"
          THEN LET id == NewLabelId(linear.labels)
               IN /\ linear' = [linear EXCEPT !.labels =
                                  @ \cup {[id |-> id, name |-> ParentName, parent |-> 0]}]
                  /\ parentId' = id
                  /\ pc' = "findChild"
                  /\ UNCHANGED thrown
          ELSE \* util: return null, and processRelease goes on without a label
               EnsureFailed("createParent", "lookup") /\ UNCHANGED <<linear, parentId>>
  /\ UNCHANGED <<cfgVars, earlier, linWorld, releaseLabel, loop, ghWorld, ghLocal, ghVars,
                 summary, reported, failed>>

\* A lookup that finds no label.
childrenNamedNone(labels, name, parent) == {}

\* nodes.find((n) => n?.parent?.id === parentId) over the labels named name.
childrenNamed(labels, name, parent) ==
  {l \in labels : l.name = name /\ l.parent = parent}

fetchChildLabel ==
  /\ pc = "findChild"
  /\ \E answer \in Answers({"ok", "rejected"}) :
       /\ faults' = Spend(answer)
       /\ log' = Logged(log, "labelRequests", "findChild", "findChild", answer)
       /\ IF answer = "rejected"
          THEN EnsureFailed("findChild", "createChild") /\ UNCHANGED releaseLabel
          ELSE LET match == childrenNamed(linear.labels, ChildName, parentId)
               IN /\ UNCHANGED thrown
                  /\ IF match = {}
                     THEN pc' = "createChild" /\ UNCHANGED releaseLabel
                     ELSE /\ \E m \in match :
                               releaseLabel' = [id |-> m.id, parent |-> m.parent]
                          /\ pc' = "lookup"
  /\ UNCHANGED <<cfgVars, earlier, linWorld, linear, parentId, loop, ghWorld, ghLocal,
                 ghVars, summary, reported, failed>>

createChildLabel ==
  /\ pc = "createChild"
  /\ \E answer \in Answers({"ok", "refused", "rejected"}) :
       /\ faults' = Spend(answer)
       /\ log' = Logged(log, "labelRequests", "createChild", "createChild", answer)
       /\ IF answer = "ok"
          THEN LET id == NewLabelId(linear.labels)
               IN /\ linear' = [linear EXCEPT !.labels =
                                  @ \cup {[id |-> id, name |-> ChildName, parent |-> parentId]}]
                  /\ releaseLabel' = [id |-> id, parent |-> parentId]
                  /\ pc' = "lookup"
                  /\ UNCHANGED thrown
          ELSE EnsureFailed("createChild", "lookup") /\ UNCHANGED <<linear, releaseLabel>>
  /\ UNCHANGED <<cfgVars, earlier, linWorld, parentId, loop, ghWorld, ghLocal, ghVars,
                 summary, reported, failed>>

\* A second call of ensureReleaseLabel (label_attach.ts) against the Linear
\* state the first call left.
ensureReleaseLabel_again ==
  /\ pc = "lookup"
  /\ loop.idx = 0
  /\ log.lookups = <<>>
  /\ impl # "util"
  /\ doLabel
  /\ releaseLabel.id # 0
  /\ ~earlier.ensured
  /\ earlier' = [earlier EXCEPT !.ensured = TRUE, !.label = releaseLabel,
                                !.labels = linear.labels]
  /\ parentId' = 0
  /\ releaseLabel' = NoLabel
  /\ pc' = "findParent"
  /\ UNCHANGED <<cfgVars, linWorld, faults, linear, loop, log, ghWorld, ghLocal,
                 ghVars, thrown, summary, reported, failed>>

(***************************************************************************)
(* The loop over the PR URLs (attach_release.ts:56-97, part_003:54-109).   *)
(* Each operator gives the loop's next position and locals.                *)
(***************************************************************************)
NoLoop == [idx |-> 0, issue |-> 0, labels |-> <<>>, anySuccess |-> FALSE,
           updatedIssues |-> {}, cbs |-> <<>>]

\* The next iteration of for (const pr of prUrls), or the code after it.
Advance(l) ==
  [pc |-> IF l.idx + 1 >= Len(prUrls) THEN "summary" ELSE "lookup",
   loop |-> [l EXCEPT !.idx = @ + 1, !.issue = 0, !.labels = <<>>,
                      !.anySuccess = FALSE]]

\* if (anySuccess) { updatedIssues.add(id); if (moveToDone) ... }
AfterTreatments(l) ==
  IF l.anySuccess
  THEN LET added == [l EXCEPT !.updatedIssues = @ \cup {l.issue}]
       IN IF impl = "util" /\ moveToDone
          THEN [pc |-> "move", loop |-> added]
          ELSE Advance(added)
  ELSE Advance(l)

\* if (doLabel && releaseLabel) / if (doLabel && releaseLabel?.id)
AfterLink(l) ==
  IF doLabel /\ releaseLabel.id # 0
  THEN [pc |-> "label", loop |-> l]
  ELSE AfterTreatments(l)

\* if (linearIssue && !updatedIssues.has(linearIssue.id)) { ... }
AfterLookup(issue) ==
  IF issue = 0 \/ issue \in loop.updatedIssues
  THEN Advance(loop)
  ELSE IF impl = "util" /\ ~isIdentifierEnabled(identifiers[issue])
  THEN Advance(loop)
  ELSE LET l == [loop EXCEPT !.issue = issue, !.labels = Snapshot(issue),
                             !.anySuccess = FALSE]
       IN IF doLink THEN [pc |-> "attach", loop |-> l] ELSE AfterLink(l)

\* A rejected lookup: part_006:28-76 catches it and answers null,
\* part_007:29-77 lets it escape.
lookupRejectedThrows(prUrl) == [pc |-> "thrown", loop |-> loop, thrown |-> "lookup"]

lookupRejected(prUrl) ==
  IF catches
  THEN [pc |-> AfterLookup(0).pc, loop |-> AfterLookup(0).loop, thrown |-> thrown]
  ELSE [pc |-> "thrown", loop |-> loop, thrown |-> "lookup"]

getLinearIssueFromPrUrl ==
  /\ pc = "lookup"
  /\ LET prUrl == prUrls[loop.idx + 1]
     IN \E answer \in Answers({"ok", "rejected"}) :
             /\ faults' = Spend(answer)
             /\ log' = Logged(log, "lookups", prUrl, "lookup", answer)
             /\ LET nxt == IF answer = "rejected"
                           THEN lookupRejected(prUrl)
                           ELSE [pc |-> AfterLookup(IssueOf(prUrl)).pc,
                                 loop |-> AfterLookup(IssueOf(prUrl)).loop,
                                 thrown |-> thrown]
                IN pc' = nxt.pc /\ loop' = nxt.loop /\ thrown' = nxt.thrown
  /\ UNCHANGED <<cfgVars, earlier, linWorld, linear, parentId, releaseLabel, ghWorld,
                 ghLocal, ghVars, summary, reported, failed>>

\* link_attach.util.ts:37-78 and part_005:35-101.
createLinearAttachment ==
  /\ pc = "attach"
  /\ \E answer \in Answers({"ok", "refused", "rejected"}) :
       /\ faults' = Spend(answer)
       /\ log' = Linked(Treated(Logged(log, "attachments", loop.issue, "attach",
                                        answer),
                                 loop.issue, answer = "ok"),
                         loop.issue, answer = "ok",
                         /\ answer # "rejected"
                         /\ IF impl = "util"
                            THEN createLinearAttachment_util(
                                   attachmentCreateResponse(answer = "ok"))
                            ELSE createLinearAttachment_cfg(
                                   attachmentCreateResponse(answer = "ok")))
       /\ linear' = IF answer = "ok"
                    THEN [linear EXCEPT !.attachments[loop.issue] = @ + 1]
                    ELSE linear
       /\ IF answer = "rejected" /\ ~catches
          THEN pc' = "thrown" /\ thrown' = "attach" /\ UNCHANGED loop
          ELSE LET response == attachmentCreateResponse(answer = "ok")
                   linkSuccess ==
                     IF answer = "rejected" THEN FALSE
                     ELSE IF impl = "util" THEN createLinearAttachment_util(response)
                     ELSE createLinearAttachment_cfg(response)
                   nxt == AfterLink([loop EXCEPT !.anySuccess = @ \/ linkSuccess])
               IN pc' = nxt.pc /\ loop' = nxt.loop /\ UNCHANGED thrown
  /\ UNCHANGED <<cfgVars, earlier, linWorld, parentId, releaseLabel, ghWorld, ghLocal,
                 ghVars, summary, reported, failed>>

\* The append-only labelIds, whatever the label's group.
newLabelIdsAppended(current, label) ==
  [i \in 1..Len(current) |-> current[i].id] \o <<label.id>>

\* The labelIds of the issueUpdate mutation: the release label replaces the
\* issue's labels of the same group.
newLabelIds(current, label) ==
  LET kept == IF label.parent # 0
              THEN SelectSeq(current, LAMBDA l : l.parent # label.parent)
              ELSE current
  IN [i \in 1..Len(kept) |-> kept[i].id] \o <<label.id>>

\* label_attach.util.ts:187-260 and label_attach.ts:305-368.
addLabelToIssue ==
  /\ pc = "label"
  /\ IF \E i \in 1..Len(loop.labels) : loop.labels[i].id = releaseLabel.id
     THEN \* if (currentIds.includes(labelId)) return true
          LET nxt == AfterTreatments([loop EXCEPT !.anySuccess = TRUE])
          IN /\ pc' = nxt.pc /\ loop' = nxt.loop
             /\ log' = Labelled(Treated(log, loop.issue, TRUE), loop.issue, TRUE)
             /\ UNCHANGED <<faults, linear, thrown>>
     ELSE \E answer \in Answers({"ok", "refused", "rejected"}) :
               /\ faults' = Spend(answer)
               /\ log' = Labelled(
                            Treated(Logged(log, "labelUpdates", loop.issue, "label", answer),
                                    loop.issue, answer = "ok"),
                            loop.issue, answer = "ok")
               /\ linear' = IF answer = "ok"
                            THEN [linear EXCEPT !.issueLabels[loop.issue] =
                                    newLabelIds(loop.labels, releaseLabel)]
                            ELSE linear
               /\ IF answer = "rejected" /\ ~catches
                  THEN pc' = "thrown" /\ thrown' = "label" /\ UNCHANGED loop
                  ELSE LET nxt == AfterTreatments(
                                    [loop EXCEPT !.anySuccess = @ \/ (answer = "ok")])
                       IN pc' = nxt.pc /\ loop' = nxt.loop /\ UNCHANGED thrown
  /\ UNCHANGED <<cfgVars, earlier, linWorld, parentId, releaseLabel, ghWorld, ghLocal,
                 ghVars, summary, reported, failed>>

\* A transition whatever the issue's state.
readyToMoveAlways(currentStateName) == TRUE

\* if (currentStateName !== 'Ready') return true (part_006:122-126)
readyToMove(currentStateName) == currentStateName = "Ready"

\* What moveIssueToDoneIfReady returned for an issue: whether the issue was
\* loaded, the state it was in, and whether issueUpdate was sent.
Moved(l, issue, returned, loaded, sent) ==
  [l EXCEPT !.moveResults =
     Append(@, [issue |-> issue, returned |-> returned, loaded |-> loaded,
                state |-> linear.issueState[issue], sent |-> sent])]

\* part_006:97-127: the query for the issue's state and its team's Done state;
\* "missing" is an answer without the issue.
moveIssueToDoneIfReady ==
  /\ pc = "move"
  /\ \E answer \in Answers({"ok", "missing", "rejected"}) :
       /\ faults' = Spend(answer)
       /\ LET sends == /\ answer = "ok"
                       /\ readyToMove(linear.issueState[loop.issue])
                       /\ linear.teamDone
              logged == Logged(log, "moves", loop.issue, "move", answer)
          IN log' = IF sends THEN logged
                    ELSE Moved(logged, loop.issue,
                               /\ answer = "ok"
                               /\ ~readyToMove(linear.issueState[loop.issue]),
                               answer = "ok", FALSE)
       /\ LET sends == /\ answer = "ok"
                       /\ readyToMove(linear.issueState[loop.issue])
                       /\ linear.teamDone
              nxt == IF sends THEN [pc |-> "moveUpdate", loop |-> loop]
                     ELSE Advance(loop)
          IN pc' = nxt.pc /\ loop' = nxt.loop
  /\ UNCHANGED <<cfgVars, earlier, linWorld, linear, parentId, releaseLabel, ghWorld,
                 ghLocal, ghVars, thrown, summary, reported, failed>>

\* part_006:129-158: the issueUpdate mutation with the Done state.
moveIssueToDoneIfReady_update ==
  /\ pc = "moveUpdate"
  /\ \E answer \in Answers({"ok", "refused", "rejected"}) :
       /\ faults' = Spend(answer)
       /\ log' = Moved(Logged(log, "stateUpdates", loop.issue, "moveUpdate", answer),
                        loop.issue, answer = "ok", TRUE, TRUE)
       /\ linear' = IF answer = "ok"
                    THEN [linear EXCEPT !.issueState[loop.issue] = "Done"]
                    ELSE linear
  /\ pc' = Advance(loop).pc
  /\ loop' = Advance(loop).loop
  /\ UNCHANGED <<cfgVars, earlier, linWorld, parentId, releaseLabel, ghWorld,
                 ghLocal, ghVars, thrown, summary, reported, failed>>

(***************************************************************************)
(* processRelease of part_002: prUrls.forEach(async (prUrl) => ...).  Every *)
(* callback runs up to its first await when forEach calls it, and from one *)
(* await to the next each time a response arrives; loop.cbs holds the      *)
(* callbacks' positions and locals, loop.updatedIssues the shared Set.     *)
(***************************************************************************)
\* A callback that has sent its lookup (part_002:57-61).
NewCallback ==
  [pc |-> "lookup", issue |-> 0, labels |-> <<>>, anySuccess |-> FALSE,
   parentId |-> 0, label |-> NoLabel]

\* if (anySuccess) return linearIssue, and updatedIssues.add of line 43.
Settle(c) == [c EXCEPT !.pc = "done"]

\* What follows the try of lines 71-81.
AfterAttach(c) == IF doLabel THEN [c EXCEPT !.pc = "findParent"] ELSE Settle(c)

\* The loop record after callback k went on to c.
Resume(k, c) ==
  [loop EXCEPT !.cbs[k] = c,
               !.updatedIssues = IF c.pc = "done" /\ c.anySuccess /\ c.issue # 0
                                 THEN @ \cup {c.issue} ELSE @]

\* Lines 30-53: forEach starts the callbacks and returns; the summary is read
\* from updatedIssues in the same turn.
processRelease_forEach ==
  /\ pc = "returned"
  /\ impl = "cfgConc"
  /\ IF Len(prUrls) = 0
     THEN summary' = "noPRs" /\ UNCHANGED <<loop, reported>>
     ELSE /\ loop' = [loop EXCEPT !.cbs = [k \in 1..Len(prUrls) |-> NewCallback]]
          /\ reported' = Cardinality(loop'.updatedIssues)
          /\ summary' = IF Cardinality(loop'.updatedIssues) > 0
                        THEN "updated" ELSE "notUpdated"
  /\ pc' = "done"
  /\ UNCHANGED <<cfgVars, earlier, linWorld, faults, linear, parentId, releaseLabel,
                 log, ghWorld, ghLocal, ghVars, thrown, failed>>

\* Lines 57-70: the lookup's answer; a rejection leaves the callback's
\* promise rejected, which nothing handles.
updateLinearIssueWithRelease ==
  /\ impl = "cfgConc"
  /\ \E k \in 1..Len(loop.cbs) :
       /\ loop.cbs[k].pc = "lookup"
       /\ \E answer \in Answers({"ok", "rejected"}) :
            /\ faults' = Spend(answer)
            /\ log' = Logged(log, "lookups", prUrls[k], "lookup", answer)
            /\ LET c == loop.cbs[k]
                   issue == IssueOf(prUrls[k])
                   found == [c EXCEPT !.issue = issue, !.labels = Snapshot(issue)]
               IN loop' = IF answer = "rejected"
                          THEN Resume(k, [c EXCEPT !.pc = "unhandled"])
                          ELSE IF issue = 0 THEN Resume(k, Settle(c))
                          ELSE IF doLink THEN Resume(k, [found EXCEPT !.pc = "attach"])
                          ELSE Resume(k, AfterAttach(found))
  /\ UNCHANGED <<cfgVars, earlier, linWorld, linear, parentId, releaseLabel, ghWorld,
                 ghLocal, ghVars, pc, thrown, summary, reported, failed>>

\* Lines 71-81 and 120-137: await attachReleaseLinkToIssue(...); anySuccess =
\* true, whatever createLinearAttachment returned; a rejection is caught.
attachReleaseLinkToIssue ==
  /\ impl = "cfgConc"
  /\ \E k \in 1..Len(loop.cbs) :
       /\ loop.cbs[k].pc = "attach"
       /\ \E answer \in Answers({"ok", "refused", "rejected"}) :
            LET c == loop.cbs[k]
            IN /\ faults' = Spend(answer)
               /\ log' = Linked(Treated(Logged(log, "attachments", c.issue, "attach",
                                                answer),
                                         c.issue, answer = "ok"),
                                 c.issue, answer = "ok",
                                 /\ answer # "rejected"
                                 /\ createLinearAttachment_cfg(
                                      attachmentCreateResponse(answer = "ok")))
               /\ linear' = IF answer = "ok"
                            THEN [linear EXCEPT !.attachments[c.issue] = @ + 1]
                            ELSE linear
               /\ loop' = Resume(k, AfterAttach(
                                      [c EXCEPT !.anySuccess = @ \/ answer # "rejected"]))
  /\ UNCHANGED <<cfgVars, earlier, linWorld, parentId, releaseLabel, ghWorld, ghLocal,
                 ghVars, pc, thrown, summary, reported, failed>>

\* Lines 105-115: ensureReleaseLabel of label_attach.ts, called by each
\* callback; one step per request.  A request that fails throws, which the
\* catch of line 92 ends the callback's labelling with.
addReleaseLabelToIssue_ensure ==
  /\ impl = "cfgConc"
  /\ \E k \in 1..Len(loop.cbs) :
       LET c == loop.cbs[k]
       IN /\ c.pc \in {"findParent", "createParent", "findChild", "createChild"}
          /\ \E answer \in Answers(IF c.pc \in {"findParent", "findChild"}
                                    THEN {"ok", "rejected"}
                                    ELSE {"ok", "refused", "rejected"}) :
               /\ faults' = Spend(answer)
               /\ log' = Logged(log, "labelRequests", c.pc, c.pc, answer)
               /\ IF answer # "ok"
                  THEN loop' = Resume(k, Settle(c)) /\ UNCHANGED linear
                  ELSE CASE c.pc = "findParent" ->
                              LET nodes == {l \in linear.labels : l.name = ParentName}
                              IN /\ UNCHANGED linear
                                 /\ IF nodes = {}
                                    THEN loop' = Resume(k, [c EXCEPT !.pc = "createParent"])
                                    ELSE \E first \in nodes :
                                           loop' = Resume(k, [c EXCEPT
                                                                !.parentId = first.id,
                                                                !.pc = "findChild"])
                         [] c.pc = "createParent" ->
                              LET id == NewLabelId(linear.labels)
                              IN /\ linear' = [linear EXCEPT !.labels = @ \cup
                                                 {[id |-> id, name |-> ParentName,
                                                   parent |-> 0]}]
                                 /\ loop' = Resume(k, [c EXCEPT !.parentId = id,
                                                                !.pc = "findChild"])
                         [] c.pc = "findChild" ->
                              LET match == childrenNamed(linear.labels, ChildName,
                                                         c.parentId)
                              IN /\ UNCHANGED linear
                                 /\ IF match = {}
                                    THEN loop' = Resume(k, [c EXCEPT !.pc = "createChild"])
                                    ELSE \E m \in match :
                                           loop' = Resume(k, [c EXCEPT
                                                     !.label = [id |-> m.id,
                                                                parent |-> m.parent],
                                                     !.pc = "label"])
                         [] c.pc = "createChild" ->
                              LET id == NewLabelId(linear.labels)
                              IN /\ linear' = [linear EXCEPT !.labels = @ \cup
                                                 {[id |-> id, name |-> ChildName,
                                                   parent |-> c.parentId]}]
                                 /\ loop' = Resume(k, [c EXCEPT
                                                         !.label = [id |-> id,
                                                                    parent |-> c.parentId],
                                                         !.pc = "label"])
  /\ UNCHANGED <<cfgVars, earlier, linWorld, parentId, releaseLabel, ghWorld, ghLocal,
                 ghVars, pc, thrown, summary, reported, failed>>

\* Lines 88-95 and 117: await addLabelToIssue(...); anySuccess = true,
\* whatever it returned; a rejection is caught.
addReleaseLabelToIssue ==
  /\ impl = "cfgConc"
  /\ \E k \in 1..Len(loop.cbs) :
       LET c == loop.cbs[k]
       IN /\ c.pc = "label"
          /\ IF \E i \in 1..Len(c.labels) : c.labels[i].id = c.label.id
             THEN /\ loop' = Resume(k, Settle([c EXCEPT !.anySuccess = TRUE]))
                  /\ log' = Labelled(Treated(log, c.issue, TRUE), c.issue, TRUE)
                  /\ UNCHANGED <<faults, linear>>
             ELSE \E answer \in Answers({"ok", "refused", "rejected"}) :
                    /\ faults' = Spend(answer)
                    /\ log' = Labelled(
                                 Treated(Logged(log, "labelUpdates", c.issue, "label",
                                                answer),
                                         c.issue, answer = "ok"),
                                 c.issue, answer = "ok")
                    /\ linear' = IF answer = "ok"
                                 THEN [linear EXCEPT !.issueLabels[c.issue] =
                                         newLabelIds(c.labels, c.label)]
                                 ELSE linear
                    /\ loop' = Resume(k, Settle(
                                  [c EXCEPT !.anySuccess = @ \/ answer # "rejected"]))
  /\ UNCHANGED <<cfgVars, earlier, linWorld, parentId, releaseLabel, ghWorld, ghLocal,
                 ghVars, pc, thrown, summary, reported, failed>>

\* attach_release.ts:99-103, part_003:111-117.
processRelease_summary ==
  /\ pc = "summary"
  /\ reported' = Cardinality(loop.updatedIssues)
  /\ summary' = IF Cardinality(loop.updatedIssues) > 0 THEN "updated" ELSE "notUpdated"
  /\ pc' = "done"
  /\ UNCHANGED <<cfgVars, earlier, linVars, ghWorld, ghLocal, ghVars, thrown, failed>>

(***************************************************************************)
(* The states a run starts from.  Each family varies one part of the world *)
(* and fixes the rest.                                                     *)
(***************************************************************************)
NoLog == [lookups |-> <<>>, attachments |-> <<>>, labelUpdates |-> <<>>,
          labelRequests |-> <<>>, moves |-> <<>>, stateUpdates |-> <<>>,
          failures |-> <<>>, succeeded |-> {}, labelled |-> {},
          attached |-> {}, linked |-> {}, moveResults |-> <<>>]

Modes == {"label", "link", "both", "attach"}

\* Issue keys: odd issues belong to team E, even ones to team O.
IdentifierOf(i) == IF i % 2 = 1 THEN <<"E", "-", "1">> ELSE <<"O", "-", "1">>

\* A workspace without labels whose issues are all Ready.
EmptyWorkspace ==
  [labels |-> {}, issueLabels |-> [i \in Issues |-> <<>>],
   before |-> [i \in Issues |-> <<>>],
   issueState |-> [i \in Issues |-> "Ready"], teamDone |-> TRUE,
   attachments |-> [i \in Issues |-> 0]]

\* Workspaces where the releases group exists: alone, with the label of an
\* earlier version that issue 1 carries next to a label outside the group,
\* with the label of this version that issue 1 already carries, and with an
\* issue 1 that carries more labels than a lookup returns.  before keeps the
\* labels the issues had when the run started.
ReleasesGroup == [id |-> 1, name |-> ParentName, parent |-> 0]

\* One label more than a lookup returns.
ManyLabels == labelsFirst + 1

Workspaces ==
  {EmptyWorkspace,
   [EmptyWorkspace EXCEPT !.labels = {ReleasesGroup}],
   [EmptyWorkspace EXCEPT
      !.labels = {ReleasesGroup,
                  [id |-> 2, name |-> "bug", parent |-> 0],
                  [id |-> 3, name |-> "earlier", parent |-> 1]},
      !.issueLabels[1] = <<2, 3>>,
      !.before[1] = <<2, 3>>,
      !.issueState[1] = "Todo"],
   [EmptyWorkspace EXCEPT
      !.labels = {ReleasesGroup,
                  [id |-> 2, name |-> "bug", parent |-> 0],
                  [id |-> 3, name |-> ChildName, parent |-> 1]},
      !.issueLabels[1] = <<3, 2>>,
      !.before[1] = <<3, 2>>],
   [EmptyWorkspace EXCEPT
      !.labels = {ReleasesGroup} \cup
                 {[id |-> k + 1, name |-> "area", parent |-> 0] : k \in 1..ManyLabels},
      !.issueLabels[1] = [k \in 1..ManyLabels |-> k + 1],
      !.before[1] = [k \in 1..ManyLabels |-> k + 1]]}

\* A healthy Linear: every request succeeds.  For the body-text variants PR n
\* is attached to an issue and the mode is both; for the diff-based variant
\* no PR is attached to an issue and the mode is link.
LinearFixture ==
  /\ mode = IF impl = "cfgDiff" THEN "link" ELSE "both"
  /\ moveToDone = (impl = "util")
  /\ configSet = TRUE
  /\ enabledRaw = <<>>
  /\ sortTies \in IF \E i, j \in comparable(releases, releases[1]) :
                       i # j /\ releases[i].created_at = releases[j].created_at
                  THEN {"first", "last"}
                  ELSE {"first"}
  /\ faults = 0
  /\ linkage = [u \in {PrUrl(n) : n \in PRs} |->
                  IF impl = "cfgDiff" THEN 0
                  ELSE Min(CHOOSE n \in PRs : PrUrl(n) = u, MaxIssues)]
  /\ identifiers = [i \in Issues |-> IdentifierOf(i)]
  /\ linear = EmptyWorkspace

InitRun ==
  /\ pc = "start"
  /\ thrown = "none"
  /\ previousReleaseTag = "none"
  /\ commits = <<>>
  /\ prSet = <<>>
  /\ cursor = 0
  /\ page = 0
  /\ prUrls = <<>>
  /\ calls = NoCalls
  /\ fetchFailed = FALSE
  /\ historyGap = "none"
  /\ summary = "none"
  /\ failed = FALSE
  /\ earlier = NoEarlier
  /\ reported = 0
  /\ parentId = 0
  /\ releaseLabel = NoLabel
  /\ loop = NoLoop
  /\ log = NoLog

\* The body-text variants, over every release body.
InitBodyWorld ==
  /\ impl \in {"util", "cfgBody"}
  /\ body \in Texts(MaxBodyLen)
  /\ notes \in IF impl = "cfgBody" THEN NotesFixtures ELSE {<<>>}
  /\ releases = <<[tag_name |-> versionName, created_at |-> 1,
                   target_commitish |-> "main", commit |-> 1]>>
  /\ assoc = OwnPr
  /\ LinearFixture

\* The diff-based variant, over every list of releases.
InitSelectWorld ==
  /\ impl = "cfgDiff"
  /\ body = <<>>
  /\ notes = <<>>
  /\ \E n \in 1..MaxReleases :
       \E t \in [1..n -> 1..MaxTime] :
         \E g \in [1..n -> Targets] :
           releases = [i \in 1..n |->
                         [tag_name |-> TagNames[i], created_at |-> t[i],
                          target_commitish |-> g[i],
                          commit |-> TipAt(g[i], t[i])]]
  /\ assoc = OwnPr
  /\ LinearFixture

\* The diff-based variant, over every placement of two tags on the commit
\* graph and every association of commits with pull requests.
InitGraphWorld ==
  /\ impl = "cfgDiff"
  /\ body = <<>>
  /\ notes = <<>>
  /\ \E cur \in Commits :
       \/ releases = <<[tag_name |-> versionName, created_at |-> MaxTime,
                        target_commitish |-> "main", commit |-> cur]>>
       \/ \E prev \in Commits, g \in Targets :
            releases = <<[tag_name |-> versionName, created_at |-> MaxTime,
                          target_commitish |-> "main", commit |-> cur],
                         [tag_name |-> TagNames[2], created_at |-> 1,
                          target_commitish |-> g, commit |-> prev]>>
  /\ assoc \in [Commits -> {{}} \cup {{p} : p \in PRs}]
  /\ LinearFixture

\* A release body naming every pull request, the first one twice:
\* "#1 #2 ... <URL of pull request 1>"
RECURSIVE Numbers(_)
Numbers(n) ==
  IF n = 0 THEN <<>> ELSE Numbers(n - 1) \o <<"#", DigitChars[n], " ">>

BodyNaming(n) == Numbers(n) \o <<"U", "1">>

\* The sequential processRelease of both builds against every Linear; the
\* prefixes and the missing configuration vary over the empty workspace, and
\* the issue with more labels than a lookup returns is labelled only.
InitLinearWorld ==
  /\ impl \in {"util", "cfgBody"}
  /\ body = BodyNaming(NPRs)
  /\ notes = <<>>
  /\ releases = <<[tag_name |-> versionName, created_at |-> 1,
                   target_commitish |-> "main", commit |-> 1]>>
  /\ assoc = OwnPr
  /\ mode \in Modes
  /\ moveToDone \in IF impl = "util" THEN BOOLEAN ELSE {FALSE}
  /\ configSet \in IF impl = "util" THEN BOOLEAN ELSE {TRUE}
  /\ enabledRaw \in IF impl = "util" THEN {<<>>, <<"e">>, <<"o", ",", " ", "e", "-">>}
                    ELSE {<<>>}
  /\ sortTies = "first"
  /\ faults = MaxFaults
  /\ linkage \in [{PrUrl(n) : n \in PRs} -> 0..MaxIssues]
  /\ identifiers = [i \in Issues |-> IdentifierOf(i)]
  /\ \E w \in Workspaces, d \in BOOLEAN :
       /\ moveToDone \/ d
       /\ enabledRaw # <<>> => w = EmptyWorkspace
       /\ ~configSet => w = EmptyWorkspace /\ mode = "both" /\ enabledRaw = <<>>
       /\ Len(w.before[1]) > labelsFirst => mode = "label" /\ ~moveToDone
       /\ linear = [w EXCEPT !.teamDone = d]

\* The variant with concurrent callbacks: a release naming two pull
\* requests, of one issue or of two, a Linear with or without the version
\* label in place, and one request that may fail.
InitConcWorld ==
  /\ impl = "cfgConc"
  /\ body = <<"#", "1", " ", "#", "2">>
  /\ notes = <<>>
  /\ releases = <<[tag_name |-> versionName, created_at |-> 1,
                   target_commitish |-> "main", commit |-> 1]>>
  /\ assoc = OwnPr
  /\ mode \in {"both", "link"}
  /\ moveToDone = FALSE
  /\ configSet = TRUE
  /\ enabledRaw = <<>>
  /\ sortTies = "first"
  /\ faults = 1
  /\ \E same \in BOOLEAN :
       linkage = [u \in {PrUrl(n) : n \in PRs} |->
                    IF same THEN 1
                    ELSE Min(CHOOSE n \in PRs : PrUrl(n) = u, MaxIssues)]
  /\ identifiers = [i \in Issues |-> IdentifierOf(i)]
  /\ linear \in {w \in Workspaces :
                   w.labels = {} \/ \E l \in w.labels : l.name = ChildName}

vars == <<impl, mode, moveToDone, configSet, enabledRaw, sortTies, earlier, body, notes, releases,
          assoc, pc, thrown, previousReleaseTag, commits, prSet, cursor, page,
          prUrls, calls, fetchFailed, historyGap, faults, linkage, identifiers,
          linear, parentId, releaseLabel, loop, log, summary, reported, failed>>

Init ==
  InitRun /\ (InitBodyWorld \/ InitSelectWorld \/ InitGraphWorld \/ InitLinearWorld
               \/ InitConcWorld)

Next ==
  \/ processRelease
  \/ run_catch
  \/ getPullRequestUrlsForRelease_env
  \/ getReleaseByTag_body
  \/ generateNotes
  \/ getReleaseByTag_diff
  \/ findPrevious
  \/ compare
  \/ commitQuery
  \/ fetchFullHistoryPRs
  \/ getPullRequestUrlsForRelease_again
  \/ processRelease_fetched
  \/ fetchParentIdByName
  \/ createParentLabelGroup
  \/ fetchChildLabel
  \/ createChildLabel
  \/ ensureReleaseLabel_again
  \/ processRelease_forEach
  \/ updateLinearIssueWithRelease
  \/ attachReleaseLinkToIssue
  \/ addReleaseLabelToIssue_ensure
  \/ addReleaseLabelToIssue
  \/ getLinearIssueFromPrUrl
  \/ createLinearAttachment
  \/ addLabelToIssue
  \/ moveIssueToDoneIfReady
  \/ moveIssueToDoneIfReady_update
  \/ processRelease_summary

Spec == Init /\ [][Next]_vars

(***************************************************************************)
(* Properties of getPullRequestUrlsForRelease.                             *)
(***************************************************************************)
\* The commits GitHub associates the pull request of this URL with.
AssociatedCommits(u) == {c \in Commits : u \in Range(associatedPullRequests(c))}

\* The releases that qualify as predecessor of the current one.
Qualifying ==
  {i \in 1..Len(releases) :
     /\ releases[i].created_at < releases[1].created_at
     /\ releases[i].tag_name # releases[1].tag_name
     /\ releases[i].target_commitish = releases[1].target_commitish}

\* C1: when a previous comparable release was found, the bounded diff returns
\* no pull request whose associated commits are all reachable from the
\* previous release's tag.
NoReattribution ==
  previousReleaseTag # "none" =>
    \A u \in Range(prUrls) :
      ~(AssociatedCommits(u) \subseteq Reach(TagCommit(previousReleaseTag)))

\* C1, its case: the diff returned pull requests while another pull request
\* has all its commits behind the previous tag.
NoReattributionCase ==
  /\ pc = "returned"
  /\ previousReleaseTag # "none"
  /\ prUrls # <<>>
  /\ \E p \in PRs :
       /\ AssociatedCommits(PrUrl(p)) # {}
       /\ AssociatedCommits(PrUrl(p)) \subseteq Reach(TagCommit(previousReleaseTag))
       /\ PrUrl(p) \notin Range(prUrls)

\* C2: when no previous comparable release was found, the returned list holds
\* exactly the pull requests associated with the commits of the tag's full
\* ancestry.
FullHistoryExact ==
  (impl = "cfgDiff" /\ pc = "returned" /\ previousReleaseTag = "none") =>
    Range(prUrls) = Range(UrlsOfCommits(history(versionName)))

\* C3: the predecessor chosen is a qualifying release (strictly earlier, other
\* tag, same target commitish) that no qualifying release is later than, and
\* none is chosen exactly when none qualifies.
PreviousSelection ==
  (calls.listReleases > 0 /\ thrown # "listReleases") =>
    IF previousReleaseTag = "none"
    THEN Qualifying = {}
    ELSE \E i \in Qualifying :
           /\ releases[i].tag_name = previousReleaseTag
           /\ \A j \in Qualifying : releases[j].created_at <= releases[i].created_at

\* C3, its case: a qualifying release was chosen although a later release,
\* of another target commitish, precedes the current one.
PreviousSelectionCase ==
  /\ pc = "compare"
  /\ \E i \in Qualifying, k \in 1..Len(releases) :
       /\ releases[i].tag_name = previousReleaseTag
       /\ releases[k].target_commitish # releases[1].target_commitish
       /\ releases[k].created_at < releases[1].created_at
       /\ releases[i].created_at < releases[k].created_at

\* C4: the list every variant returns holds each URL at most once.
ReturnedOnce == NoDuplicates(prUrls)

\* C4, its case: the text matched one pull request several times, and the
\* list was returned.
ReturnedOnceCase ==
  /\ pc = "returned"
  /\ impl \in {"util", "cfgBody"}
  /\ prUrls # <<>>
  /\ Len(prSet) > Len(prUrls)

\* C5: when getReleaseByTag fails in the diff-based variant, it was tried
\* once, no release was listed, no commits were compared, no history was
\* read, Linear received nothing, and the run ends marked as failed.
ReleaseFailureFatal ==
  thrown = "getReleaseByTag" =>
    /\ calls.getReleaseByTag = 1
    /\ calls.listReleases = 0
    /\ calls.compareCommits = 0
    /\ calls.commitQueries = <<>>
    /\ calls.historyPages = <<>>
    /\ log = NoLog
    /\ pc \in {"thrown", "done"}
    /\ (pc = "done" => failed)

\* C5, its case: the run ended after getReleaseByTag failed.
ReleaseFailureCase ==
  thrown = "getReleaseByTag" /\ pc = "done" /\ failed

\* C6: a history page that cannot be obtained after earlier pages were
\* accumulated fails the run.
HistoryFailureFatal ==
  (page > 1 /\ historyGap # "none") =>
    /\ pc \in {"thrown", "done"}
    /\ (pc = "done" => failed)

\* C7: a failure to fetch the release in the body-text variants is not
\* reported as a release without pull requests.
FetchFailureSurfaced == fetchFailed => summary # "noPRs"

(***************************************************************************)
(* Properties of the sequential processRelease.                            *)
(***************************************************************************)
LoopCalls == {"lookup", "attach", "label", "move", "moveUpdate"}

\* C8: with the *.util collaborators no failure of a Linear call is thrown,
\* the PR URLs are looked up in order, and all of them have been looked up
\* when the loop is over.
UtilLoopIsolated ==
  impl = "util" =>
    /\ thrown \in {"none", "config"}
    /\ Len(log.lookups) <= Len(prUrls)
    /\ log.lookups = SubSeq(prUrls, 1, Len(log.lookups))
    /\ (pc \in {"summary", "done"} /\ thrown = "none" => log.lookups = prUrls)

\* C8, its case: Linear failed a call of the loop for the first PR, and the
\* run ended having looked up both.
UtilLoopIsolatedCase ==
  /\ impl = "util"
  /\ pc = "done"
  /\ Len(prUrls) >= 2
  /\ log.lookups = prUrls
  /\ log.failures # <<>>
  /\ log.failures[1] \in LoopCalls
  /\ Len(log.attachments) + Len(log.labelUpdates) >= 2

\* C9: with the collaborators taking linearApiUrl and linearApiKey, a failed
\* lookup, attachment or label update does not abort the run.
CfgLoopIsolated ==
  impl # "util" => thrown \notin {"lookup", "attach", "label"}

\* C10: the number reported is the number of distinct issues on which an
\* attachment or a label update succeeded, and the summary says that no
\* issue was updated exactly when that number is zero.
ReportedCount ==
  summary \in {"updated", "notUpdated"} =>
    /\ reported = Cardinality(log.succeeded)
    /\ (summary = "notUpdated" <=> reported = 0)

(***************************************************************************)
(* Properties of the reference extraction.                                 *)
(***************************************************************************)
\* The numbers of text t: the maximal runs of digits, by first and last
\* position.
IsNumber(t, i, j) ==
  /\ 1 <= i /\ i <= j /\ j <= Len(t)
  /\ \A k \in i..j : t[k] \in Digits
  /\ (j = Len(t) \/ t[j + 1] \notin Digits)

\* The pull-request numbers text t refers to in one of the three forms:
\* full URL, #n outside a longer token, org/repo#n.
References(t) ==
  {SubSeq(t, i, j) : <<i, j>> \in
     {x \in (1..Len(t)) \X (1..Len(t)) :
        /\ IsNumber(t, x[1], x[2])
        /\ x[1] > 1
        /\ \/ t[x[1] - 1] = "U"
           \/ /\ t[x[1] - 1] = "#"
              /\ x[1] > 2
              /\ t[x[1] - 2] = "R"
           \/ /\ t[x[1] - 1] = "#"
              /\ (x[1] = 2 \/ ~WordEnd(t[x[1] - 2]))
              /\ (x[2] = Len(t) \/ ~WordStart(t[x[2] + 1]))}}

\* The text the body-text variant of part_007 ends up extracting from.
ExtractedText == IF References(body) # {} THEN body ELSE notes

\* C11: the body-text variant returns exactly the canonical URLs of the
\* distinct references of the text, each once, whichever form they have.
ExtractExact ==
  (impl = "cfgBody" /\ pc = "returned" /\ ~fetchFailed) =>
    /\ Range(prUrls) = References(ExtractedText)
    /\ Len(prUrls) = Cardinality(References(ExtractedText))

\* The same for the texts in which every URL is written with github.com.
ExtractExactOfPlainText ==
  ("V" \notin Range(body) \cup Range(notes)) => ExtractExact

\* The URLs text t gives rise to by a full URL or by a #n that stands outside
\* a longer token.
FreeStanding(t) ==
  {(IF t[x[1] - 1] = "V" THEN <<"V">> ELSE <<>>) \o SubSeq(t, x[1], x[2]) :
     x \in {y \in (2..Len(t)) \X (2..Len(t)) :
              /\ IsNumber(t, y[1], y[2])
              /\ \/ t[y[1] - 1] \in {"U", "V"}
                 \/ /\ t[y[1] - 1] = "#"
                    /\ (y[1] = 2 \/ ~WordEnd(t[y[1] - 2]))
                    /\ (y[2] = Len(t) \/ ~WordStart(t[y[2] + 1]))}}

\* The numbers text t writes as org/repo#n.
Qualified(t) ==
  {SubSeq(t, x[1], x[2]) :
     x \in {y \in (3..Len(t)) \X (3..Len(t)) :
              /\ IsNumber(t, y[1], y[2])
              /\ t[y[1] - 1] = "#"
              /\ t[y[1] - 2] = "R"}}

\* C12 as stated: a #n preceded or followed by a word character contributes
\* no URL, so every URL returned comes from a full URL or a free-standing #n.
EmbeddedIgnored ==
  (impl \in {"util", "cfgBody"} /\ pc = "returned") =>
    Range(prUrls) \subseteq FreeStanding(body) \cup FreeStanding(notes)

\* C12: a #n preceded or followed by a word character contributes no URL,
\* unless it is written org/repo#n and the variant knows that form.
EmbeddedIgnoredUnlessQualified ==
  (impl \in {"util", "cfgBody"} /\ pc = "returned") =>
    Range(prUrls) \subseteq
      FreeStanding(body) \cup FreeStanding(notes) \cup
      (IF impl = "cfgBody" THEN Qualified(body) \cup Qualified(notes) ELSE {})

\* C12, its case: the body is a #n inside a longer token, and nothing was
\* extracted from it.
EmbeddedIgnoredCase ==
  /\ pc = "returned"
  /\ ~fetchFailed
  /\ prUrls = <<>>
  /\ Len(body) = 3
  /\ body[2] = "#"
  /\ body[3] \in Digits
  /\ body[1] = "a"

\* C13: a second invocation of the diff-based variant for the same tag, with
\* the releases and the commit graph unchanged, returns the same set.
SameSetAgain ==
  (impl = "cfgDiff" /\ pc = "returned" /\ earlier.done) =>
    Range(prUrls) = Range(earlier.urls)

\* The same for two invocations all of whose history pages were answered
\* with a history object.
SameSetAgainOfFullHistories ==
  (earlier.gap = "none" /\ historyGap = "none") => SameSetAgain

(***************************************************************************)
(* Properties of the inputs of processRelease.                             *)
(***************************************************************************)
\* The issues on which a treatment was attempted: an attachment or a label
\* update was sent, or addLabelToIssue found the label in place.
Attempted == Range(log.attachments) \cup Range(log.labelUpdates) \cup log.succeeded

\* The issues the loop resolved and did not skip, Linear answering every
\* request.
Resolved ==
  {i \in Issues :
     /\ \E u \in Range(prUrls) : IssueOf(u) = i
     /\ impl = "util" => isIdentifierEnabled(identifiers[i])}

\* C14: with each documented MODE ('link', 'attach', 'both') a treatment is
\* attempted on every resolved issue, and a treatment is attempted only when
\* the mode includes it.
ModeSelects ==
  (impl = "util" /\ summary \in {"updated", "notUpdated"} /\ log.failures = <<>>) =>
    /\ mode \in {"link", "attach", "both"} => Resolved \subseteq Attempted
    /\ mode = "link" => log.labelRequests = <<>> /\ log.labelUpdates = <<>>
    /\ mode = "label" => log.attachments = <<>>

\* The same for the values of the enumeration ReleaseMode.
ModeSelectsOfReleaseMode ==
  mode \in {"label", "link", "both"} =>
    ((impl = "util" /\ summary \in {"updated", "notUpdated"} /\ log.failures = <<>>) =>
       /\ Resolved \subseteq Attempted
       /\ mode = "link" => log.labelRequests = <<>> /\ log.labelUpdates = <<>>
       /\ mode = "label" => log.attachments = <<>>)

\* C15: with MOVE_TO_DONE every issue linked or labelled with success ends in
\* the state Done, the move is requested only for issues treated with
\* success and at most once per issue; without it no move is requested.
MovedToDone ==
  /\ Range(log.moves) \cup Range(log.stateUpdates) \subseteq log.succeeded
  /\ NoDuplicates(log.stateUpdates)
  /\ ~moveToDone => log.moves = <<>> /\ log.stateUpdates = <<>>
  /\ (moveToDone /\ summary \in {"updated", "notUpdated"} /\ log.failures = <<>>) =>
       \A i \in log.succeeded : linear.issueState[i] = "Done"

\* The same, where only the issues the run counted as updated, found in the
\* state Ready in a team that has a Done state, must end in Done.
MovedToDoneIfReady ==
  /\ Range(log.moves) \cup Range(log.stateUpdates) \subseteq log.succeeded
  /\ NoDuplicates(log.stateUpdates)
  /\ ~moveToDone => log.moves = <<>> /\ log.stateUpdates = <<>>
  /\ (moveToDone /\ summary \in {"updated", "notUpdated"} /\ log.failures = <<>>) =>
       /\ \A i \in loop.updatedIssues :
            linear.issueState[i] = "Ready" => ~linear.teamDone
       /\ \A i \in Range(log.stateUpdates) : linear.issueState[i] = "Done"

(***************************************************************************)
(* Properties of the labels.                                               *)
(***************************************************************************)
\* C16: once addLabelToIssue has returned true for an issue, the issue's
\* label ids contain the release label exactly once and no other label of
\* the release label's group (in the variants that look an issue up and
\* label it before the next lookup).
LabelExclusive ==
  impl # "cfgConc" =>
    \A i \in log.labelled :
      LET ids == linear.issueLabels[i]
      IN /\ Cardinality({k \in 1..Len(ids) : ids[k] = releaseLabel.id}) = 1
         /\ \A k \in 1..Len(ids) :
              ids[k] # releaseLabel.id =>
                ParentOf(linear.labels, ids[k]) # releaseLabel.parent

\* C16, its case: issue 1 carried the label of an earlier version and a label
\* outside the group, and the update succeeded.
LabelExclusiveCase ==
  /\ 1 \in log.labelled
  /\ 1 \in Range(log.labelUpdates)
  /\ releaseLabel.parent # 0
  /\ \E l \in linear.labels : l.name = "earlier"
  /\ Len(linear.issueLabels[1]) = 2

\* C16, its other case: issue 1 already carried the release label.
LabelInPlaceCase ==
  /\ 1 \in log.labelled
  /\ 1 \notin Range(log.labelUpdates)

\* C17: called by one caller at a time, as the sequential variants call it,
\* ensureReleaseLabel of label_attach.ts never leaves two groups of the
\* name or two labels of the version under the group, the label it returns
\* is the label of that name under that group, and a second call creates
\* nothing and returns the label of the first.
EnsureFindOrCreate ==
  impl \in {"cfgBody", "cfgDiff"} =>
    /\ Cardinality({l \in linear.labels : l.name = ParentName}) <= 1
    /\ Cardinality({l \in linear.labels : l.name = ChildName}) <= 1
    /\ releaseLabel.id # 0 =>
         /\ [id |-> releaseLabel.id, name |-> ChildName,
             parent |-> releaseLabel.parent] \in linear.labels
         /\ [id |-> releaseLabel.parent, name |-> ParentName,
             parent |-> 0] \in linear.labels
    /\ earlier.ensured =>
         /\ linear.labels = earlier.labels
         /\ releaseLabel.id # 0 => releaseLabel = earlier.label

\* C17, its case: the first call created the group and the label, and the
\* second call has returned.
EnsureFindOrCreateCase ==
  /\ pc = "lookup"
  /\ earlier.ensured
  /\ releaseLabel.id # 0
  /\ log.labelRequests =
       <<"findParent", "createParent", "findChild", "createChild",
         "findParent", "findChild">>

\* C18: createLinearAttachment of link_attach.util.ts returns true exactly
\* for the issues whose attachmentCreate Linear answered with success, and
\* never throws.
AttachmentReported ==
  impl = "util" => log.linked = log.attached /\ thrown # "attach"

\* The same statement for the variant that reads response.data.data, as far
\* as the return value goes.
AttachmentReportedOfBody ==
  impl # "util" => log.linked = log.attached

\* createLinearAttachment of link_attach.util.ts returns false for a failed
\* or rejected request and does not throw.
AttachmentFailureReported ==
  impl = "util" => log.linked \subseteq log.attached /\ thrown # "attach"

\* C19: an invocation of the diff-based orchestrator runs the comparison and
\* the per-commit queries only when a previous comparable release exists and
\* the full-history pagination only when none exists, never both, and an
\* invocation that returned ran the one its case calls for.
OneStrategy ==
  impl = "cfgDiff" =>
    LET diffRan == calls.compareCommits > 0 \/ calls.commitQueries # <<>>
        historyRan == calls.historyPages # <<>>
    IN /\ ~(diffRan /\ historyRan)
       /\ diffRan => Qualifying # {} /\ calls.listReleases = 1
       /\ historyRan => Qualifying = {} /\ calls.listReleases = 1
       /\ calls.compareCommits <= 1
       /\ pc = "returned" =>
            /\ Qualifying # {} <=> calls.compareCommits = 1
            /\ Qualifying = {} <=> historyRan

\* C19, its case: a previous release was found, the bounded diff held no
\* commit, and the invocation returned without a page of history.
OneStrategyCase ==
  /\ impl = "cfgDiff"
  /\ pc = "returned"
  /\ previousReleaseTag # "none"
  /\ calls.compareCommits = 1
  /\ commits = <<>>
  /\ calls.historyPages = <<>>

\* C19, its other case: the diff held commits none of which has a pull
\* request.
OneStrategyNoPRsCase ==
  /\ impl = "cfgDiff"
  /\ pc = "returned"
  /\ previousReleaseTag # "none"
  /\ commits # <<>>
  /\ prUrls = <<>>
  /\ calls.historyPages = <<>>

\* C20: in the bounded diff the queried commits are, in order and once each,
\* commits the comparison of previous to current tag returned, all of them
\* when the invocation returns, and the returned set is the union of what
\* the queries returned.
BoundedDiffExact ==
  impl = "cfgDiff" /\ calls.compareCommits > 0 =>
    LET diff == compareCommits(previousReleaseTag, versionName)
        queried == calls.commitQueries
    IN /\ Len(queried) <= Len(diff)
       /\ queried = SubSeq(diff, 1, Len(queried))
       /\ NoDuplicates(queried)
       /\ pc = "returned" =>
            /\ queried = diff
            /\ NoDuplicates(prUrls)
            /\ Range(prUrls) =
                 UNION {Range(associatedPullRequests(c)) : c \in Range(queried)}

\* C20, its case: a diff of several commits, two of them of the same pull
\* request, has returned.
BoundedDiffExactCase ==
  /\ impl = "cfgDiff"
  /\ pc = "returned"
  /\ Len(calls.commitQueries) >= 2
  /\ \E c, d \in Range(calls.commitQueries) :
       c # d /\ assoc[c] \cap assoc[d] # {}
  /\ \E c \in Commits : c \notin Range(calls.commitQueries) /\ assoc[c] # {}

\* C21: once the release was fetched, the body-text variant with the notes
\* fallback returns an empty result only after generating the release notes
\* and only when the notes yield no reference either, and does not generate
\* the notes when the body yields a reference.
NotesFallback ==
  impl = "cfgBody" /\ pc = "returned" /\ ~(fetchFailed /\ calls.generateNotes = 0) =>
    /\ prUrls = <<>> =>
         /\ calls.generateNotes >= 1
         /\ extractPRUrlsFromBody(notes, <<>>) = <<>>
    /\ extractPRUrlsFromBody(body, <<>>) # <<>> => calls.generateNotes = 0

\* The same statement for the runs in which GitHub answered every request.
NotesFallbackOfAnswered ==
  impl = "cfgBody" /\ pc = "returned" /\ ~fetchFailed =>
    /\ prUrls = <<>> =>
         /\ calls.generateNotes >= 1
         /\ extractPRUrlsFromBody(notes, <<>>) = <<>>
    /\ extractPRUrlsFromBody(body, <<>>) # <<>> => calls.generateNotes = 0
    /\ (body # <<>> /\ extractPRUrlsFromBody(body, <<>>) = <<>>) =>
         /\ calls.generateNotes = 1
         /\ prUrls = Dedup(extractPRUrlsFromBody(notes, <<>>))

\* C22: against a source that answers every request with a page,
\* fetchFullHistoryPRs requests the first page without a cursor and every
\* later page with the end cursor the page before it reported, never after a
\* page that reported no further page, so each page once and in order and at
\* most as many pages as the history has commits; it returns right after the
\* first page that reports no further page.
HistoryPagination ==
  impl = "cfgDiff" /\ historyGap = "none" /\ thrown # "history" =>
    LET pages == calls.historyPages
        ends == calls.historyEnds
    IN /\ Len(ends) = Len(pages)
       /\ Len(pages) <= Len(history(versionName))
       /\ \A k \in 1..Len(pages) :
            /\ k = 1 => pages[k] = 0
            /\ k > 1 => /\ pages[k] = ends[k - 1].endCursor
                        /\ ends[k - 1].hasNextPage
                        /\ pages[k] > pages[k - 1]
       /\ (pages # <<>> /\ ~ends[Len(ends)].hasNextPage) =>
            /\ pc # "history"
            /\ ends[Len(ends)].endCursor = Len(history(versionName))
       /\ (pages # <<>> /\ pc = "returned") => ~ends[Len(ends)].hasNextPage

\* C22, its case: a history of several pages was read to its end.
HistoryPaginationCase ==
  /\ impl = "cfgDiff"
  /\ pc = "returned"
  /\ historyGap = "none"
  /\ Len(calls.historyPages) >= 2
  /\ calls.historyEnds[Len(calls.historyEnds)].endCursor = Len(history(versionName))

\* C27: moveIssueToDoneIfReady sends issueUpdate only for a loaded issue in
\* the state Ready whose team has a Done state, and the issue then ends in
\* that state when Linear accepts; for an issue in another state it sends
\* nothing and returns true; it returns false and sends nothing when the
\* issue is not loaded or the team has no Done state; it returns false when
\* the update is refused or rejected, and never throws.
MoveContract ==
  /\ thrown \notin {"move", "moveUpdate"}
  /\ \A i \in Issues :
       linear.issueState[i] = "Done" => i \in Range(log.stateUpdates)
  /\ \A k \in 1..Len(log.moveResults) :
       LET r == log.moveResults[k]
       IN /\ r.sent => r.loaded /\ r.state = "Ready" /\ linear.teamDone
          /\ ~r.loaded => ~r.returned /\ ~r.sent
          /\ (r.loaded /\ r.state # "Ready") => r.returned /\ ~r.sent
          /\ (r.loaded /\ r.state = "Ready" /\ ~linear.teamDone) =>
               ~r.returned /\ ~r.sent
          /\ (r.loaded /\ r.state = "Ready" /\ linear.teamDone) => r.sent
          /\ (r.sent /\ r.returned) => linear.issueState[r.issue] = "Done"
          /\ (r.sent /\ ~r.returned) => "moveUpdate" \in Range(log.failures)

\* C27, its case: in one run an issue in another state was left alone with
\* true returned, and a Ready issue was moved to Done.
MoveContractCase ==
  /\ pc = "done"
  /\ \E j, k \in 1..Len(log.moveResults) :
       /\ log.moveResults[j].loaded
       /\ log.moveResults[j].state = "Todo"
       /\ log.moveResults[j].returned
       /\ linear.issueState[log.moveResults[j].issue] = "Todo"
       /\ log.moveResults[k].sent
       /\ log.moveResults[k].returned

\* C27, further cases: the issue could not be loaded, and the team has no
\* Done state.
MoveContractFalseCase ==
  /\ pc = "done"
  /\ \E k \in 1..Len(log.moveResults) :
       \/ ~log.moveResults[k].loaded /\ "move" \notin Range(log.failures)
       \/ /\ log.moveResults[k].loaded
          /\ log.moveResults[k].state = "Ready"
          /\ ~linear.teamDone

(***************************************************************************)
(* Properties of ENABLED_LINEAR_PREFIXES.                                  *)
(***************************************************************************)
\* The team keys the input names, upper-cased: its characters other than
\* separators and dashes (the keys of this model are single letters).
ConfiguredKeys ==
  {UpperChar(c) : c \in Range(enabledRaw) \ (Separators \cup {"-"})}

\* The issue's identifier starts with a configured key followed by '-'.
HasConfiguredKey(i) ==
  /\ Len(identifiers[i]) >= 2
  /\ identifiers[i][2] = "-"
  /\ UpperChar(identifiers[i][1]) \in ConfiguredKeys

\* C28: with a configured prefix, an issue whose identifier starts with none
\* of the prefixes followed by '-' gets no attachment, label update or state
\* request and is not counted; an issue that does, and every issue when
\* nothing is configured, gets the treatments of the mode.
PrefixFilter ==
  impl = "util" =>
    /\ \A i \in Issues :
         (ConfiguredKeys # {} /\ ~HasConfiguredKey(i)) =>
           /\ i \notin Range(log.attachments) \cup Range(log.labelUpdates)
           /\ i \notin Range(log.moves) \cup Range(log.stateUpdates)
           /\ i \notin loop.updatedIssues
    /\ (summary \in {"updated", "notUpdated"} /\ log.failures = <<>>) =>
         \A u \in Range(prUrls) :
           LET i == IssueOf(u)
           IN (i # 0 /\ (ConfiguredKeys = {} \/ HasConfiguredKey(i))) =>
                /\ doLink => i \in Range(log.attachments)
                /\ doLabel => i \in log.labelled

\* C28, its case: one prefix is configured, and of two issues with pull
\* requests of the release the one of the configured team was labelled and
\* counted and the other was left alone.
PrefixFilterCase ==
  /\ impl = "util"
  /\ pc = "done"
  /\ ConfiguredKeys # {}
  /\ \E i, j \in Issues :
       /\ HasConfiguredKey(i) /\ i \in log.labelled /\ i \in loop.updatedIssues
       /\ ~HasConfiguredKey(j)
       /\ \E u \in Range(log.lookups) : IssueOf(u) = j

\* C29: once addLabelToIssue has returned true for an issue, every label
\* the issue had before the run outside the release label's group is still
\* on it, and no update was sent for an issue that carried the release label
\* already.
LabelsKept ==
  \A i \in log.labelled :
    /\ \A id \in Range(linear.before[i]) :
         ParentOf(linear.labels, id) # releaseLabel.parent =>
           id \in Range(linear.issueLabels[i])
    /\ releaseLabel.id \in Range(linear.before[i]) =>
         i \notin Range(log.labelUpdates)

\* The same for the issues whose labels a lookup returns in full.
LabelsKeptWithinFirst ==
  \A i \in log.labelled :
    Len(linear.before[i]) <= labelsFirst =>
      /\ \A id \in Range(linear.before[i]) :
           ParentOf(linear.labels, id) # releaseLabel.parent =>
             id \in Range(linear.issueLabels[i])
      /\ releaseLabel.id \in Range(linear.before[i]) =>
           i \notin Range(log.labelUpdates)

(***************************************************************************)
(* Properties of the variant with concurrent callbacks (part_002).         *)
(***************************************************************************)
\* The callbacks that have not finished.
InFlight ==
  {k \in 1..Len(loop.cbs) : loop.cbs[k].pc \notin {"done", "unhandled"}}

\* How many requests of a kind named the issue.
Requests(kind, i) ==
  Cardinality({k \in 1..Len(log[kind]) : log[kind][k] = i})

\* C23: in the variant with concurrent callbacks no issue is sent the
\* attachment or the label update more than once in a run.
IssueTreatedOnce ==
  impl = "cfgConc" =>
    \A i \in Issues :
      /\ Requests("attachments", i) <= 1
      /\ Requests("labelUpdates", i) <= 1

\* The same for the runs whose pull requests belong to different issues.
IssueTreatedOnceOfDistinct ==
  (impl = "cfgConc" /\ \A u, v \in DOMAIN linkage : u # v => linkage[u] # linkage[v]) =>
    \A i \in Issues :
      /\ Requests("attachments", i) <= 1
      /\ Requests("labelUpdates", i) <= 1

\* C24: in the variant with concurrent callbacks the summary is emitted, and
\* processRelease resolves, only when no callback is in flight, and the count
\* reported is that of the issues updated in the run.
SummaryAfterCallbacks ==
  (impl = "cfgConc" /\ summary \in {"updated", "notUpdated"}) =>
    /\ InFlight = {}
    /\ reported = Cardinality(loop.updatedIssues)

\* What does hold: the summary of this variant never counts an issue.
SummaryCountsNothing ==
  (impl = "cfgConc" /\ summary # "none") =>
    /\ reported = 0
    /\ summary \in {"noPRs", "notUpdated"}

\* C25: in the variant with concurrent callbacks an issue is counted as
\* updated only if its attachment was created or its label update succeeded
\* or found the label in place.
CountedOnlyOnSuccess ==
  impl = "cfgConc" =>
    \A i \in loop.updatedIssues : i \in log.attached \cup log.labelled

\* What does hold: an issue is counted only after a mutation for it was
\* answered, with success or without, or its label was found in place.
CountedOnlyIfAnswered ==
  impl = "cfgConc" =>
    \A i \in loop.updatedIssues :
      \/ i \in Range(log.attachments) \cup Range(log.labelUpdates)
      \/ i \in log.labelled

\* C26: a run leaves at most one group of the name and at most one label of
\* the version that it created, in every variant.
OneGroupOneLabel ==
  LET created == linear.labels \ earlier.labels
      mine == IF earlier.ensured THEN created ELSE linear.labels
  IN /\ Cardinality({l \in mine : l.name = ParentName}) <= 1
     /\ Cardinality({l \in mine : l.name = ChildName}) <= 1

\* The same for the variants that call ensureReleaseLabel of label_attach.ts
\* once per run, before the loop.
OneGroupOneLabelOfSequential ==
  impl \in {"cfgBody", "cfgDiff"} =>
    /\ Cardinality({l \in linear.labels : l.name = ParentName}) <= 1
    /\ Cardinality({l \in linear.labels : l.name = ChildName}) <= 1

====
